---- MODULE Spec2Model ----
(***************************************************************************)
(* Logs-volume aggregation of the ClickHouse Grafana datasource:           *)
(*   queryLogsVolume         the observable request / merge / emit         *)
(*                           protocol,                                     *)
(*   aggregateRawLogsVolume  the per-level reduction of one raw frame,     *)
(*   getLogVolumeFieldConfig the display name of a level,                  *)
(*   getIntervalInfo         the bucket width for a time span and a hint,  *)
(*   getTimeFieldRoundingClause  the database-side truncation of the time, *)
(* and the ORDER BY editor of the query builder as its tests drive it.     *)
(***************************************************************************)
EXTENDS Integers, Sequences, FiniteSets, TLC

VARIABLES
    MISSING_VALUE,   \* what MutableDataFrame.addField pads a new field with
    rawFrame,        \* reducer harness: the single raw frame handed to the reducer
    aggregated,      \* reducer harness: <<>> before the call, <<result>> after
    scopedVars,      \* interval harness: the scoped variables of the request
    timespanMs,      \* interval harness: the width of the requested range
    intervalInfo,    \* interval harness: <<>>, then <<result of getIntervalInfo>>
    roundingClause,  \* interval harness: <<>>, then <<the clause>>
    consoleErrors,   \* interval harness: the messages given to console.error
    allColumns,      \* OrderByEditor: the allColumns prop
    orderBy,         \* OrderByEditor: the orderBy prop
    clicks,          \* OrderByEditor: the buttons clicked, in order
    onOrderByChangeCalls, \* OrderByEditor: the arguments onOrderByChange got
    \* one entry per subscription to the observable of queryLogsVolume
    pc,              \* position of the subscribe callback
    rawLogsVolume,   \* let rawLogsVolume: the frames retained so far
    observerClosed,  \* the caller's Subscriber is stopped / closed
    upstreamClosed,  \* the Subscriber of the upstream subscription is stopped
    out,             \* notifications delivered to the caller, in order
    callerUnsubscribed, \* the caller has unsubscribed from the output
    queries,         \* calls of datasource.query
    releases,        \* calls of subscription.unsubscribe by the teardown
    reducerRuns,     \* calls of aggregateRawLogsVolume
    received,        \* frames of the non-error batches handed to next:
    hardErrors,      \* errors handed to next: (embedded) or error:, in order
    upstreamCompleted \* complete: was invoked

(***************************************************************************)
(* Bounds of the model.                                                    *)
(***************************************************************************)
\* value columns of a raw frame
MaxCols == 2
\* frames retained by one invocation of the pipeline
MaxFrames == 2
\* frames carried by one upstream batch
MaxBatchLen == 2
\* hard errors (embedded or channel) one upstream delivers
MaxErrors == 2
\* items of the orderBy prop of the editor
MaxOrderBy == 2
\* clicks on the buttons of one rendered editor
MaxClicks == 3
\* value columns of a raw frame of one row
MaxLevelCols == 3

(***************************************************************************)
(* JavaScript values of a column: null, undefined, or a finite number.     *)
(***************************************************************************)
Null == [t |-> "null"]
Undef == [t |-> "undefined"]
Num(n) == [t |-> "number", v |-> n]

\* (x || 0): null, undefined and 0 are falsy
OrZero(x) == IF x.t = "number" THEN x.v ELSE 0

TIME_FIELD_ALIAS == "time"
DEFAULT_LOGS_ALIAS == "logs"

(***************************************************************************)
(* getLogLevelFromKey of @grafana/data: the LogLevel enumeration maps the   *)
(* lower-cased key to a canonical level, any other key to unknown.         *)
(***************************************************************************)
getLogLevelFromKey(key) ==
    CASE key \in {"emerg", "fatal", "alert", "crit", "critical"} -> "critical"
      [] key \in {"warn", "warning"} -> "warning"
      [] key \in {"err", "eror", "error"} -> "error"
      [] key \in {"info", "information", "informational", "notice"} -> "info"
      [] key \in {"dbug", "debug"} -> "debug"
      [] key = "trace" -> "trace"
      [] OTHER -> "unknown"

\* a display name that shows every unknown level as the generic series
getLogVolumeFieldConfigGeneric(level, oneLevelDetected) ==
    IF level = "unknown" THEN "logs" ELSE level

\* getLogVolumeFieldConfig: the display name handed to the renderer
getLogVolumeFieldConfig(level, oneLevelDetected) ==
    IF oneLevelDetected /\ level = "unknown" THEN "logs" ELSE level

\* a fold that overwrites the accumulated value instead of adding to it
totalValueOverwrite(currentValue, valueToAdd) ==
    IF currentValue = Null /\ valueToAdd = Null
    THEN Null
    ELSE Num(OrZero(valueToAdd))

\* a fold that keeps the value accumulated first and adds nothing to it
totalValueKeepFirst(currentValue, valueToAdd) ==
    IF currentValue.t = "number" THEN currentValue ELSE valueToAdd

\* const totalValue = currentValue === null && valueToAdd === null ? null
\*                    : (currentValue || 0) + (valueToAdd || 0)
totalValue(currentValue, valueToAdd) ==
    IF currentValue = Null /\ valueToAdd = Null
    THEN Null
    ELSE Num(OrZero(currentValue) + OrZero(valueToAdd))

\* totalValue > 0 (null > 0 is false)
IsPositive(x) == x.t = "number" /\ x.v > 0

\* field.values.get(pointIndex): undefined beyond the end of the column
ValueAt(field, pointIndex) ==
    IF pointIndex \in DOMAIN field.values THEN field.values[pointIndex] ELSE Undef

\* the entry created for a level seen for the first time: a frame with fields
\* Time and Value, both padded to totalLength
NewLevelFrame(logLevel, oneLevelDetected, totalLength) ==
    [level |-> logLevel,
     name |-> getLogVolumeFieldConfig(logLevel, oneLevelDetected),
     Time |-> [i \in 1..totalLength |-> MISSING_VALUE],
     Value |-> [i \in 1..totalLength |-> MISSING_VALUE],
     hasNonZeroValues |-> FALSE]

\* the for loop over pointIndex: one raw column folded into the level's frame
FoldField(df, field, timeField, totalLength) ==
    LET folded == [i \in 1..totalLength |-> totalValue(df.Value[i], ValueAt(field, i))]
    IN  [df EXCEPT
            !.Value = folded,
            !.Time = [i \in 1..totalLength |-> ValueAt(timeField, i)],
            !.hasNonZeroValues =
                df.hasNonZeroValues \/ \E i \in 1..totalLength : IsPositive(folded[i])]

\* position of logLevel in the insertion-ordered Map, 0 when absent
MapIndex(map, logLevel) ==
    IF \E k \in 1..Len(map) : map[k].level = logLevel
    THEN CHOOSE k \in 1..Len(map) : map[k].level = logLevel
    ELSE 0

\* an iteration that deletes the level's entry and inserts it anew, at the end
FoldLevelFieldReinsert(map, field, timeField, oneLevelDetected, totalLength) ==
    LET logLevel == getLogLevelFromKey(field.name)
        at == MapIndex(map, logLevel)
        df == IF at = 0
              THEN NewLevelFrame(logLevel, oneLevelDetected, totalLength)
              ELSE map[at]
        folded == FoldField(df, field, timeField, totalLength)
    IN  IF at = 0
        THEN Append(map, folded)
        ELSE Append(SubSeq(map, 1, at - 1) \o SubSeq(map, at + 1, Len(map)), folded)

\* one iteration of levelFields.forEach: get-or-create, fold, Map.set
FoldLevelField(map, field, timeField, oneLevelDetected, totalLength) ==
    LET logLevel == getLogLevelFromKey(field.name)
        at == MapIndex(map, logLevel)
        df == IF at = 0
              THEN NewLevelFrame(logLevel, oneLevelDetected, totalLength)
              ELSE map[at]
        folded == FoldField(df, field, timeField, totalLength)
    IN  IF at = 0 THEN Append(map, folded) ELSE [map EXCEPT ![at] = folded]

RECURSIVE logLevelToDataFrame(_, _, _, _, _)
\* the Map after the first n level fields were folded, in first-seen order
logLevelToDataFrame(levelFields, n, timeField, oneLevelDetected, totalLength) ==
    IF n = 0
    THEN <<>>
    ELSE FoldLevelField(
            logLevelToDataFrame(levelFields, n - 1, timeField, oneLevelDetected, totalLength),
            levelFields[n], timeField, oneLevelDetected, totalLength)

\* an output series: the level's frame, without provenance metadata yet
OutputFrame(df) ==
    [level |-> df.level, name |-> df.name, Time |-> df.Time, Value |-> df.Value,
     meta |-> <<>>]

RECURSIVE NonZeroFrames(_)
\* the final reduce: frames of the levels with hasNonZeroValues, in Map order
NonZeroFrames(map) ==
    IF map = <<>>
    THEN <<>>
    ELSE IF Head(map).hasNonZeroValues
         THEN <<OutputFrame(Head(map))>> \o NonZeroFrames(Tail(map))
         ELSE NonZeroFrames(Tail(map))

IsTimeField(f) == f.name = TIME_FIELD_ALIAS
IsLevelField(f) == f.name # TIME_FIELD_ALIAS

\* the Map of the single raw frame after levelFields.forEach: partition, fold
FoldedLevels(frame) ==
    LET timeFields == SelectSeq(frame.fields, IsTimeField)
        levelFields == SelectSeq(frame.fields, IsLevelField)
    IN  IF timeFields = <<>>
        THEN <<>>
        ELSE LET timeField == timeFields[1]
                 oneLevelDetected ==
                     Len(levelFields) = 1 /\ levelFields[1].name = DEFAULT_LOGS_ALIAS
                 totalLength == Len(timeField.values)
             IN  logLevelToDataFrame(levelFields, Len(levelFields), timeField,
                                     oneLevelDetected, totalLength)

\* the reduction of the single raw frame: partition, fold, filter
aggregateSingleFrame(frame) == NonZeroFrames(FoldedLevels(frame))

\* a reducer that takes the first frame of however many were retained
aggregateFirstFrame(frames) ==
    IF frames = <<>> THEN <<>> ELSE aggregateSingleFrame(frames[1])

\* if (rawLogsVolume.length !== 1) { return []; }
aggregateRawLogsVolume(frames) ==
    IF Len(frames) # 1 THEN <<>> ELSE aggregateSingleFrame(frames[1])

(***************************************************************************)
(* The interval resolver.  scopedVars.__interval is modelled by whether it *)
(* is supplied, scopedVars.__interval_ms.value by an integer.              *)
(***************************************************************************)
MILLISECOND == 1
SECOND == 1000 * MILLISECOND
MINUTE == 60 * SECOND
HOUR == 60 * MINUTE
DAY == 24 * HOUR

\* a resolver without the branch for time spans below 5 seconds
getIntervalInfoNoMillis(scoped, timespan) ==
    IF scoped.__interval
    THEN LET intervalMs == scoped.__interval_ms.value
         IN  CASE intervalMs > HOUR -> [interval |-> "1d", intervalMs |-> DAY]
               [] intervalMs > MINUTE -> [interval |-> "1h", intervalMs |-> HOUR]
               [] intervalMs > SECOND -> [interval |-> "1m", intervalMs |-> MINUTE]
               [] OTHER -> [interval |-> "1s", intervalMs |-> SECOND]
    ELSE [interval |-> "$__interval"]

\* a resolver that snaps a hint equal to a fixed width to the next width
getIntervalInfoInclusive(scoped, timespan) ==
    IF scoped.__interval
    THEN LET intervalMs == scoped.__interval_ms.value
         IN  CASE timespan < SECOND * 5 -> [interval |-> "1ms", intervalMs |-> MILLISECOND]
               [] intervalMs >= HOUR -> [interval |-> "1d", intervalMs |-> DAY]
               [] intervalMs >= MINUTE -> [interval |-> "1h", intervalMs |-> HOUR]
               [] intervalMs >= SECOND -> [interval |-> "1m", intervalMs |-> MINUTE]
               [] OTHER -> [interval |-> "1s", intervalMs |-> SECOND]
    ELSE [interval |-> "$__interval"]

\* getIntervalInfo: {interval, intervalMs}, or {interval: '$__interval'} alone
getIntervalInfo(scoped, timespan) ==
    IF scoped.__interval
    THEN LET intervalMs == scoped.__interval_ms.value
         IN  CASE timespan < SECOND * 5 -> [interval |-> "1ms", intervalMs |-> MILLISECOND]
               [] intervalMs > HOUR -> [interval |-> "1d", intervalMs |-> DAY]
               [] intervalMs > MINUTE -> [interval |-> "1h", intervalMs |-> HOUR]
               [] intervalMs > SECOND -> [interval |-> "1m", intervalMs |-> MINUTE]
               [] OTHER -> [interval |-> "1s", intervalMs |-> SECOND]
    ELSE [interval |-> "$__interval"]

\* let interval = 'DAY' and the ladder of getTimeFieldRoundingClause: below 5
\* seconds nothing is assigned, so the default stays
RoundingInterval(scoped, timespan) ==
    IF scoped.__interval
    THEN LET intervalMs == scoped.__interval_ms.value
         IN  CASE timespan < SECOND * 5 -> "DAY"
               [] intervalMs > HOUR -> "DAY"
               [] intervalMs > MINUTE -> "HOUR"
               [] intervalMs > SECOND -> "MINUTE"
               [] OTHER -> "SECOND"
    ELSE "DAY"

\* console.error('MILLIS precision is not supported')
RoundingDiagnostics(scoped, timespan) ==
    IF scoped.__interval /\ timespan < SECOND * 5
    THEN <<"MILLIS precision is not supported">>
    ELSE <<>>

\* timeField = 'created_at': the default of an argument left undefined
TimeFieldOrDefault(timeField) ==
    IF timeField = "undefined" THEN "created_at" ELSE timeField

\* the template literal, as the sequence of its pieces
getTimeFieldRoundingClause(scoped, timespan, timeField) ==
    <<"toStartOfInterval(\"", TimeFieldOrDefault(timeField), "\", INTERVAL 1 ",
      RoundingInterval(scoped, timespan), ")">>

(***************************************************************************)
(* queryLogsVolume.  Every subscription to the returned observable runs    *)
(* the subscribe callback from its start; Subscriptions names them.        *)
(***************************************************************************)
Subscriptions == {1, 2}

\* error: undefined
NoError == "undefined"
Errors == {"e1", "e2"}

\* a DateTime of the range, and its valueOf(): the Unix time in milliseconds
DateTime(unixMs) == [kind |-> "DateTime", unixMs |-> unixMs]
valueOf(dateTime) == dateTime.unixMs

\* the options of the call: the targets and the range
options(i) ==
    [targets |-> IF i = 1 THEN <<"A">> ELSE <<"A", "B">>,
     range |-> [from |-> DateTime(0), to |-> DateTime(120000)]]

\* the raw frames an upstream batch may carry: a wide table with two columns of
\* one level and one of another, a table with the generic column, and a table
\* without time column
PipeFrames ==
    { [fields |-> << [name |-> "time", values |-> <<Num(0), Num(60000)>>],
                     [name |-> "warn", values |-> <<Num(1), Num(0)>>],
                     [name |-> "warning", values |-> <<Num(0), Num(1)>>],
                     [name |-> "error", values |-> <<Num(1), Num(1)>>] >>],
      [fields |-> << [name |-> "time", values |-> <<Num(0)>>],
                     [name |-> "logs", values |-> <<Num(1)>>] >>],
      [fields |-> << [name |-> "error", values |-> <<Num(1)>>] >>] }

BatchData == UNION { [1..n -> PipeFrames] : n \in 0..MaxBatchLen }

\* DataQueryResponse: the frames of a batch and its optional embedded error
Batches == [data : BatchData, error : {NoError} \cup Errors]

\* toDataFrame of a value that is a data frame already keeps its fields
toDataFrame(d) == [fields |-> d.fields]

LoadingRecord == [kind |-> "next", state |-> "Loading", error |-> NoError, data |-> <<>>]
DoneRecord(data) == [kind |-> "next", state |-> "Done", error |-> NoError, data |-> data]
ErrorRecord(error) == [kind |-> "next", state |-> "Error", error |-> error, data |-> <<>>]
ErrorNotification(error) == [kind |-> "error", state |-> "none", error |-> error, data |-> <<>>]
CompleteNotification == [kind |-> "complete", state |-> "none", error |-> NoError, data |-> <<>>]

(***************************************************************************)
(* The caller's Subscriber (rxjs).  sub.out are the notifications          *)
(* delivered, sub.closed the stopped flag, sub.unsub whether the caller    *)
(* unsubscribed, sub.up whether the upstream subscription is closed,       *)
(* sub.rel how often the teardown called subscription.unsubscribe.         *)
(* registered: the teardown of the subscribe callback is attached, which   *)
(* is the case once the callback has returned.  unsubscribes: the caller   *)
(* unsubscribes inside its handler of the record.                          *)
(***************************************************************************)
\* return () => { subscription?.unsubscribe(); }
Teardown(sub, registered) ==
    IF registered THEN [sub EXCEPT !.up = TRUE, !.rel = sub.rel + 1] ELSE sub

\* a Subscriber that delivers although it is closed
observerNextUnchecked(sub, record, unsubscribes, registered) ==
    LET delivered == [sub EXCEPT !.out = Append(sub.out, record)]
    IN  IF unsubscribes
        THEN Teardown([delivered EXCEPT !.closed = TRUE, !.unsub = TRUE], registered)
        ELSE delivered

observerNext(sub, record, unsubscribes, registered) ==
    IF sub.closed
    THEN sub
    ELSE LET delivered == [sub EXCEPT !.out = Append(sub.out, record)]
         IN  IF unsubscribes
             THEN Teardown([delivered EXCEPT !.closed = TRUE, !.unsub = TRUE], registered)
             ELSE delivered

observerError(sub, error, registered) ==
    IF sub.closed
    THEN sub
    ELSE Teardown([sub EXCEPT !.out = Append(sub.out, ErrorNotification(error)),
                              !.closed = TRUE], registered)

observerComplete(sub, registered) ==
    IF sub.closed
    THEN sub
    ELSE Teardown([sub EXCEPT !.out = Append(sub.out, CompleteNotification),
                              !.closed = TRUE], registered)

Sub(i) ==
    [out |-> out[i], closed |-> observerClosed[i],
     unsub |-> callerUnsubscribed[i], up |-> upstreamClosed[i], rel |-> releases[i]]

SetSub(i, sub) ==
    \E s \in {sub} :
        /\ out' = [out EXCEPT ![i] = s.out]
        /\ observerClosed' = [observerClosed EXCEPT ![i] = s.closed]
        /\ callerUnsubscribed' = [callerUnsubscribed EXCEPT ![i] = s.unsub]
        /\ upstreamClosed' = [upstreamClosed EXCEPT ![i] = s.up]
        /\ releases' = [releases EXCEPT ![i] = s.rel]

Registered(i) == pc[i] = "subscribed"

\* rawLogsVolume declared outside the subscribe callback: one for all
ClosureShared(i) == 1

\* rawLogsVolume is declared in the subscribe callback: one per subscription
Closure(i) == i

\* an accumulator that keeps the frames of the last batch only
AccumulateLast(retained, data) ==
    [k \in DOMAIN data |-> toDataFrame(data[k])]

\* rawLogsVolume.concat(dataQueryResponse.data.map(toDataFrame))
Accumulate(retained, data) ==
    retained \o [k \in DOMAIN data |-> toDataFrame(data[k])]

\* {custom: {targets, absoluteRange: {from, to}}}
ProvenanceMeta(opts) ==
    <<[targets |-> opts.targets,
       absoluteRange |-> [from |-> valueOf(opts.range.from),
                          to |-> valueOf(opts.range.to)]]>>

\* a completion that attaches the metadata to every series
AttachMetaAll(aggregatedLogsVolume, opts) ==
    [k \in DOMAIN aggregatedLogsVolume |->
        [aggregatedLogsVolume[k] EXCEPT !.meta = ProvenanceMeta(opts)]]

\* if (aggregatedLogsVolume[0]) { aggregatedLogsVolume[0].meta = {...} }
AttachMeta(aggregatedLogsVolume, opts) ==
    IF aggregatedLogsVolume # <<>>
    THEN [aggregatedLogsVolume EXCEPT ![1].meta = ProvenanceMeta(opts)]
    ELSE aggregatedLogsVolume

intervalVars == <<scopedVars, timespanMs, intervalInfo, roundingClause, consoleErrors>>
editorVars == <<allColumns, orderBy, clicks, onOrderByChangeCalls>>
harnessVars == <<MISSING_VALUE, rawFrame, aggregated, intervalVars, editorVars>>
subscriberVars == <<out, observerClosed, callerUnsubscribed, upstreamClosed, releases>>
upstreamLog == <<received, hardErrors, upstreamCompleted>>

\* a subscribe callback that publishes no Loading record
SubscribeSilent(i, unsubscribes) ==
    /\ pc[i] = "idle"
    /\ rawLogsVolume' = [rawLogsVolume EXCEPT ![Closure(i)] = <<>>]
    /\ pc' = [pc EXCEPT ![i] = "query"]
    /\ UNCHANGED <<harnessVars, upstreamLog, subscriberVars, queries, reducerRuns>>

\* new Observable((observer) => { let rawLogsVolume = []; observer.next(Loading)
Subscribe(i, unsubscribes) ==
    /\ pc[i] = "idle"
    /\ rawLogsVolume' = [rawLogsVolume EXCEPT ![Closure(i)] = <<>>]
    /\ SetSub(i, observerNext(Sub(i), LoadingRecord, unsubscribes, FALSE))
    /\ pc' = [pc EXCEPT ![i] = "query"]
    /\ UNCHANGED <<harnessVars, upstreamLog, queries, reducerRuns>>

\* datasource.query(logsVolumeRequest); queryObservable.subscribe({...}) starts
IssueQuery(i) ==
    /\ pc[i] = "query"
    /\ queries' = [queries EXCEPT ![i] = @ + 1]
    /\ pc' = [pc EXCEPT ![i] = "subscribing"]
    /\ UNCHANGED <<harnessVars, upstreamLog, subscriberVars, rawLogsVolume, reducerRuns>>

\* queryObservable.subscribe returned: the handle exists and the teardown is
\* attached; attached to a closed Subscriber it runs at once
SubscribeReturn(i) ==
    /\ pc[i] = "subscribing"
    /\ pc' = [pc EXCEPT ![i] = "subscribed"]
    /\ SetSub(i, IF observerClosed[i] THEN Teardown(Sub(i), TRUE) ELSE Sub(i))
    /\ UNCHANGED <<harnessVars, upstreamLog, rawLogsVolume, queries, reducerRuns>>

\* a next: handler that publishes the Error record without observer.error
NextHandlerNoClose(i, dataQueryResponse, unsubscribes) ==
    IF dataQueryResponse.error # NoError
    THEN /\ SetSub(i, observerNext(Sub(i), ErrorRecord(dataQueryResponse.error),
                                   unsubscribes, Registered(i)))
         /\ hardErrors' = [hardErrors EXCEPT ![i] = Append(@, dataQueryResponse.error)]
         /\ UNCHANGED <<rawLogsVolume, received>>
    ELSE /\ rawLogsVolume' =
                [rawLogsVolume EXCEPT ![Closure(i)] = Accumulate(@, dataQueryResponse.data)]
         /\ received' = [received EXCEPT ![i] = @ \o dataQueryResponse.data]
         /\ UNCHANGED <<subscriberVars, hardErrors>>

\* a next: handler that publishes the reduction so far with every batch
NextHandlerPublishing(i, dataQueryResponse, unsubscribes) ==
    IF dataQueryResponse.error # NoError
    THEN /\ SetSub(i, observerError(
                observerNext(Sub(i), ErrorRecord(dataQueryResponse.error),
                             unsubscribes, Registered(i)),
                dataQueryResponse.error, Registered(i)))
         /\ hardErrors' = [hardErrors EXCEPT ![i] = Append(@, dataQueryResponse.error)]
         /\ UNCHANGED <<rawLogsVolume, received>>
    ELSE /\ rawLogsVolume' =
                [rawLogsVolume EXCEPT ![Closure(i)] = Accumulate(@, dataQueryResponse.data)]
         /\ received' = [received EXCEPT ![i] = @ \o dataQueryResponse.data]
         /\ SetSub(i, observerNext(Sub(i), LoadingRecord, unsubscribes, Registered(i)))
         /\ UNCHANGED hardErrors

\* next: (dataQueryResponse) => {...}
NextHandler(i, dataQueryResponse, unsubscribes) ==
    IF dataQueryResponse.error # NoError
    THEN /\ SetSub(i, observerError(
                observerNext(Sub(i), ErrorRecord(dataQueryResponse.error),
                             unsubscribes, Registered(i)),
                dataQueryResponse.error, Registered(i)))
         /\ hardErrors' = [hardErrors EXCEPT ![i] = Append(@, dataQueryResponse.error)]
         /\ UNCHANGED <<rawLogsVolume, received>>
    ELSE /\ rawLogsVolume' =
                [rawLogsVolume EXCEPT ![Closure(i)] = Accumulate(@, dataQueryResponse.data)]
         /\ received' = [received EXCEPT ![i] = @ \o dataQueryResponse.data]
         /\ UNCHANGED <<subscriberVars, hardErrors>>

\* an error: handler that publishes the Error record without observer.error
ErrorHandlerRecordOnly(i, error, unsubscribes) ==
    /\ SetSub(i, observerNext([Sub(i) EXCEPT !.up = TRUE], ErrorRecord(error),
                              unsubscribes, Registered(i)))
    /\ hardErrors' = [hardErrors EXCEPT ![i] = Append(@, error)]

\* error: (error) => {...}; the upstream Subscriber is stopped by the error
ErrorHandler(i, error, unsubscribes) ==
    /\ SetSub(i, observerError(
            observerNext([Sub(i) EXCEPT !.up = TRUE], ErrorRecord(error),
                         unsubscribes, Registered(i)),
            error, Registered(i)))
    /\ hardErrors' = [hardErrors EXCEPT ![i] = Append(@, error)]

\* complete: () => {...}; the upstream Subscriber is stopped by the completion
CompleteHandler(i, unsubscribes) ==
    \E aggregatedLogsVolume \in
            {AttachMeta(aggregateRawLogsVolume(rawLogsVolume[Closure(i)]), options(i))} :
        /\ SetSub(i, observerComplete(
                observerNext([Sub(i) EXCEPT !.up = TRUE], DoneRecord(aggregatedLogsVolume),
                             unsubscribes, Registered(i)),
                Registered(i)))
        /\ reducerRuns' = [reducerRuns EXCEPT ![i] = @ + 1]
        /\ upstreamCompleted' = [upstreamCompleted EXCEPT ![i] = TRUE]

UpstreamOpen(i) == pc[i] \in {"subscribing", "subscribed"} /\ ~upstreamClosed[i]

\* the upstream delivers a batch, during subscribe or later
UpstreamNext(i, dataQueryResponse, unsubscribes) ==
    /\ UpstreamOpen(i)
    /\ IF dataQueryResponse.error # NoError
       THEN Len(hardErrors[i]) < MaxErrors
       ELSE Len(received[i]) + Len(dataQueryResponse.data) <= MaxFrames
    /\ NextHandler(i, dataQueryResponse, unsubscribes)
    /\ UNCHANGED <<harnessVars, pc, queries, reducerRuns, upstreamCompleted>>

\* the upstream channel fails
UpstreamError(i, error, unsubscribes) ==
    /\ UpstreamOpen(i)
    /\ Len(hardErrors[i]) < MaxErrors
    /\ ErrorHandler(i, error, unsubscribes)
    /\ UNCHANGED <<harnessVars, pc, queries, reducerRuns, rawLogsVolume, received,
                   upstreamCompleted>>

\* the upstream channel completes
UpstreamComplete(i, unsubscribes) ==
    /\ UpstreamOpen(i)
    /\ CompleteHandler(i, unsubscribes)
    /\ UNCHANGED <<harnessVars, pc, queries, rawLogsVolume, received, hardErrors>>

\* the caller unsubscribes from the output with the handle subscribe gave it
CallerUnsubscribe(i) ==
    /\ pc[i] = "subscribed"
    /\ ~callerUnsubscribed[i]
    /\ SetSub(i, IF observerClosed[i]
                 THEN [Sub(i) EXCEPT !.unsub = TRUE]
                 ELSE Teardown([Sub(i) EXCEPT !.closed = TRUE, !.unsub = TRUE], TRUE))
    /\ UNCHANGED <<harnessVars, upstreamLog, pc, rawLogsVolume, queries, reducerRuns>>

PipelineIdle ==
    /\ pc = [i \in Subscriptions |-> "idle"]
    /\ rawLogsVolume = [i \in Subscriptions |-> <<>>]
    /\ observerClosed = [i \in Subscriptions |-> FALSE]
    /\ upstreamClosed = [i \in Subscriptions |-> FALSE]
    /\ out = [i \in Subscriptions |-> <<>>]
    /\ callerUnsubscribed = [i \in Subscriptions |-> FALSE]
    /\ queries = [i \in Subscriptions |-> 0]
    /\ releases = [i \in Subscriptions |-> 0]
    /\ reducerRuns = [i \in Subscriptions |-> 0]
    /\ received = [i \in Subscriptions |-> <<>>]
    /\ hardErrors = [i \in Subscriptions |-> <<>>]
    /\ upstreamCompleted = [i \in Subscriptions |-> FALSE]

pipelineVars ==
    <<pc, rawLogsVolume, observerClosed, upstreamClosed, out, callerUnsubscribed,
      queries, releases, reducerRuns, received, hardErrors, upstreamCompleted>>

vars == <<harnessVars, pipelineVars>>

MissingValues == {Null, Undef}

\* no scoped variables, nothing resolved
IntervalIdle ==
    /\ scopedVars = [__interval |-> FALSE, __interval_ms |-> [value |-> 0]]
    /\ timespanMs = 0
    /\ intervalInfo = <<>>
    /\ roundingClause = <<>>
    /\ consoleErrors = <<>>

\* no editor rendered
EditorIdle ==
    /\ allColumns = <<>>
    /\ orderBy = <<>>
    /\ clicks = <<>>
    /\ onOrderByChangeCalls = <<>>

Init ==
    /\ MISSING_VALUE \in MissingValues
    /\ rawFrame = [fields |-> <<>>]
    /\ aggregated = <<>>
    /\ IntervalIdle
    /\ EditorIdle
    /\ PipelineIdle

\* one subscription, any upstream and any caller
Next ==
    \/ \E unsubscribes \in BOOLEAN : Subscribe(1, unsubscribes)
    \/ IssueQuery(1)
    \/ SubscribeReturn(1)
    \/ \E dataQueryResponse \in Batches, unsubscribes \in BOOLEAN :
          UpstreamNext(1, dataQueryResponse, unsubscribes)
    \/ \E error \in Errors, unsubscribes \in BOOLEAN : UpstreamError(1, error, unsubscribes)
    \/ \E unsubscribes \in BOOLEAN : UpstreamComplete(1, unsubscribes)
    \/ CallerUnsubscribe(1)

Spec == Init /\ [][Next]_vars

\* the subscribe callback is synchronous code: once started it runs to its end
FairSpec ==
    /\ Spec
    /\ WF_vars(\E unsubscribes \in BOOLEAN : Subscribe(1, unsubscribes))
    /\ WF_vars(IssueQuery(1))
    /\ WF_vars(SubscribeReturn(1))

NonErrorBatches == {b \in Batches : b.error = NoError}

\* two subscriptions whose upstream events interleave; the callers unsubscribe
\* only with their handle, the upstreams fail only as a channel
NextTwo ==
    \E i \in Subscriptions :
        \/ Subscribe(i, FALSE)
        \/ IssueQuery(i)
        \/ SubscribeReturn(i)
        \/ \E dataQueryResponse \in NonErrorBatches : UpstreamNext(i, dataQueryResponse, FALSE)
        \/ UpstreamError(i, "e1", FALSE)
        \/ UpstreamComplete(i, FALSE)
        \/ CallerUnsubscribe(i)

SpecTwo == Init /\ [][NextTwo]_vars

(***************************************************************************)
(* Reducer harness: aggregateRawLogsVolume applied to every single raw     *)
(* frame of a bounded family (time column first, last or missing; value    *)
(* columns of the same row count as the time column).                      *)
(***************************************************************************)
CellValues == {Null, Num(-1), Num(0), Num(1)}
LevelNames == {"warn", "error", "logs", "other"}
TimeColumns == {<<>>, <<Num(0)>>, <<Num(0), Num(60000)>>}
TimePlaces == {"first", "last", "absent"}

LevelColumns(rows) == [name : LevelNames, values : [1..rows -> CellValues]]

MakeFrame(timeValues, place, columns) ==
    LET timeField == [name |-> TIME_FIELD_ALIAS, values |-> timeValues]
    IN  [fields |-> CASE place = "first" -> <<timeField>> \o columns
                      [] place = "last" -> columns \o <<timeField>>
                      [] OTHER -> columns]

InitAgg ==
    /\ MISSING_VALUE \in MissingValues
    /\ \E tv \in TimeColumns, place \in TimePlaces, n \in 0..MaxCols :
          \E columns \in [1..n -> LevelColumns(Len(tv))] :
              rawFrame = MakeFrame(tv, place, columns)
    /\ aggregated = <<>>
    /\ IntervalIdle
    /\ EditorIdle
    /\ PipelineIdle

\* the reducer is called on the single accumulated frame
Reduce ==
    /\ aggregated = <<>>
    /\ aggregated' = <<aggregateRawLogsVolume(<<rawFrame>>)>>
    /\ UNCHANGED <<MISSING_VALUE, rawFrame, intervalVars, editorVars, pipelineVars>>

NextAgg == Reduce

SpecAgg == InitAgg /\ [][NextAgg]_vars

\* the frames of two rows whose value columns share levels: two names of one
\* level and one name of another, after a leading time column
FoldNames == {"warn", "warning", "error"}

InitFold ==
    /\ MISSING_VALUE \in MissingValues
    /\ \E n \in 0..MaxCols :
          \E columns \in [1..n -> [name : FoldNames, values : [1..2 -> CellValues]]] :
              rawFrame = MakeFrame(<<Num(0), Num(60000)>>, "first", columns)
    /\ aggregated = <<>>
    /\ IntervalIdle
    /\ EditorIdle
    /\ PipelineIdle

SpecFold == InitFold /\ [][NextAgg]_vars

\* the frames of one row with up to MaxLevelCols value columns, enough for
\* three levels to be seen in any order
InitOrder ==
    /\ MISSING_VALUE \in MissingValues
    /\ \E place \in TimePlaces, n \in 0..MaxLevelCols :
          \E columns \in [1..n -> LevelColumns(1)] :
              rawFrame = MakeFrame(<<Num(0)>>, place, columns)
    /\ aggregated = <<>>
    /\ IntervalIdle
    /\ EditorIdle
    /\ PipelineIdle

SpecOrder == InitOrder /\ [][NextAgg]_vars

(***************************************************************************)
(* Interval harness: getIntervalInfo and getTimeFieldRoundingClause applied *)
(* to hints and time spans at and around every threshold of the ladder.    *)
(***************************************************************************)
FixedWidths == {SECOND, MINUTE, HOUR, DAY}

Hints ==
    UNION {{w - 1, w, w + 1} : w \in {MILLISECOND} \cup FixedWidths}
        \cup {2 * HOUR, 2 * DAY}

Timespans == {0, 5 * SECOND - 1, 5 * SECOND, 5 * SECOND + 1, HOUR, 7 * DAY}

\* scoped variables with a hint, and without
ScopedVars ==
    [__interval : {TRUE}, __interval_ms : [value : Hints]]
        \cup {[__interval |-> FALSE, __interval_ms |-> [value |-> 0]]}

TimeFields == {"undefined", "timestamp"}

InitInterval ==
    /\ MISSING_VALUE = Undef
    /\ rawFrame = [fields |-> <<>>]
    /\ aggregated = <<>>
    /\ scopedVars \in ScopedVars
    /\ timespanMs \in Timespans
    /\ intervalInfo = <<>>
    /\ roundingClause = <<>>
    /\ consoleErrors = <<>>
    /\ EditorIdle
    /\ PipelineIdle

\* getIntervalInfo(scopedVars, timespanMs) is called
ResolveInterval ==
    /\ intervalInfo = <<>>
    /\ intervalInfo' = <<getIntervalInfo(scopedVars, timespanMs)>>
    /\ UNCHANGED <<MISSING_VALUE, rawFrame, aggregated, scopedVars, timespanMs,
                   roundingClause, consoleErrors, editorVars, pipelineVars>>

\* getTimeFieldRoundingClause(scopedVars, timespanMs, timeField) is called
RoundTimeField(timeField) ==
    /\ roundingClause = <<>>
    /\ roundingClause' = <<getTimeFieldRoundingClause(scopedVars, timespanMs, timeField)>>
    /\ consoleErrors' = consoleErrors \o RoundingDiagnostics(scopedVars, timespanMs)
    /\ UNCHANGED <<MISSING_VALUE, rawFrame, aggregated, scopedVars, timespanMs,
                   intervalInfo, editorVars, pipelineVars>>

NextInterval ==
    \/ ResolveInterval
    \/ \E timeField \in TimeFields : RoundTimeField(timeField)

SpecInterval == InitInterval /\ [][NextInterval]_vars

(***************************************************************************)
(* OrderByEditor, rendered once with the props allColumns, orderBy and a    *)
(* mock onOrderByChange that records its calls and never changes the props. *)
(* Button indices count from 0, as getAllByTestId(...)[i] does.             *)
(***************************************************************************)
testColumns == <<"foo", "bar", "baz">>

OrderByDirection == {"ASC", "DESC"}

OrderByItems == [name : {testColumns[k] : k \in DOMAIN testColumns}, dir : OrderByDirection]

\* the allColumns props: every run of consecutive test columns, and none
ColumnLists == {SubSeq(testColumns, a, b) : a, b \in DOMAIN testColumns} \cup {<<>>}

\* the item the add button appends: the first column, ascending
AddOrderByItem(items, columns) ==
    Append(items, [name |-> columns[1], dir |-> "ASC"])

\* a removal that drops the item and all that follow it
RemoveOrderByItemSplice(items, index) == SubSeq(items, 1, index)

\* the list without the item at index
RemoveOrderByItem(items, index) ==
    SubSeq(items, 1, index) \o SubSeq(items, index + 2, Len(items))

InitEditor ==
    /\ MISSING_VALUE = Undef
    /\ rawFrame = [fields |-> <<>>]
    /\ aggregated = <<>>
    /\ IntervalIdle
    /\ allColumns \in ColumnLists
    /\ \E n \in 0..MaxOrderBy : orderBy \in [1..n -> OrderByItems]
    /\ clicks = <<>>
    /\ onOrderByChangeCalls = <<>>
    /\ PipelineIdle

\* nothing is rendered when no columns are passed
Rendered == allColumns # <<>>

\* click on query-builder-orderby-add-button
ClickAdd ==
    /\ Rendered
    /\ Len(clicks) < MaxClicks
    /\ clicks' = Append(clicks, [button |-> "add", index |-> 0])
    /\ onOrderByChangeCalls' =
          Append(onOrderByChangeCalls, AddOrderByItem(orderBy, allColumns))
    /\ UNCHANGED <<MISSING_VALUE, rawFrame, aggregated, intervalVars, allColumns, orderBy,
                   pipelineVars>>

\* click on the index-th query-builder-orderby-remove-button
ClickRemove(index) ==
    /\ Rendered
    /\ Len(clicks) < MaxClicks
    /\ index + 1 \in DOMAIN orderBy
    /\ clicks' = Append(clicks, [button |-> "remove", index |-> index])
    /\ onOrderByChangeCalls' =
          Append(onOrderByChangeCalls, RemoveOrderByItem(orderBy, index))
    /\ UNCHANGED <<MISSING_VALUE, rawFrame, aggregated, intervalVars, allColumns, orderBy,
                   pipelineVars>>

NextEditor ==
    \/ ClickAdd
    \/ \E index \in 0..(MaxOrderBy - 1) : ClickRemove(index)

SpecEditor == InitEditor /\ [][NextEditor]_vars

(***************************************************************************)
(* Vocabulary of the properties of the reducer.                            *)
(***************************************************************************)
CanonicalLevels == {"critical", "error", "warning", "info", "debug", "trace", "unknown"}

HasTimeColumn(frame) == \E k \in DOMAIN frame.fields : frame.fields[k].name = "time"

TimeColumnOf(frame) ==
    frame.fields[CHOOSE k \in DOMAIN frame.fields :
                    /\ frame.fields[k].name = "time"
                    /\ \A j \in 1..(k - 1) : frame.fields[j].name # "time"].values

\* the positions of the value columns of a frame
ValueColumns(frame) == {k \in DOMAIN frame.fields : frame.fields[k].name # "time"}

\* the positions of the raw columns that classify to a level
Contributing(frame, level) ==
    {k \in DOMAIN frame.fields :
        /\ frame.fields[k].name # "time"
        /\ getLogLevelFromKey(frame.fields[k].name) = level}

RECURSIVE SumOfPresent(_, _, _)
\* the sum over the columns at positions ks of their value at row i, absent as 0
SumOfPresent(frame, ks, i) ==
    IF ks = {}
    THEN 0
    ELSE LET k == CHOOSE x \in ks : TRUE
             val == frame.fields[k].values[i]
         IN  (IF val.t = "number" THEN val.v ELSE 0) + SumOfPresent(frame, ks \ {k}, i)

AnyPresent(frame, ks, i) == \E k \in ks : frame.fields[k].values[i].t = "number"

Reduced == aggregated # <<>> /\ HasTimeColumn(rawFrame)

EmittedLevels == {aggregated[1][k].level : k \in DOMAIN aggregated[1]}

(***************************************************************************)
(* Properties of the pipeline, under Spec, FairSpec and SpecTwo.           *)
(***************************************************************************)
\* the positions of the Done and Error records in the output of subscription i
TerminalRecords(i) ==
    {k \in DOMAIN out[i] : out[i][k].kind = "next" /\ out[i][k].state \in {"Done", "Error"}}

\* the upstream was queried or has delivered something
UpstreamTouched(i) ==
    \/ queries[i] > 0
    \/ received[i] # <<>>
    \/ hardErrors[i] # <<>>
    \/ upstreamCompleted[i]

StripMeta(frames) == [k \in DOMAIN frames |-> [frames[k] EXCEPT !.meta = <<>>]]

\* more or fewer than one raw frame, or a frame without time column
Malformed(frames) == Len(frames) # 1 \/ ~HasTimeColumn(frames[1])

\* C1: the first record published to the caller is Loading with empty data; it
\* is published before the upstream is queried and before any Done or Error.
C1_LoadingFirst ==
    \A i \in Subscriptions :
        /\ (pc[i] # "idle" \/ UpstreamTouched(i)) => out[i] # <<>>
        /\ out[i] # <<>> => out[i][1] = LoadingRecord
        /\ \A k \in DOMAIN out[i] : k > 1 => out[i][k].state # "Loading"

\* the upstream emitted during subscribe, and a terminal record followed Loading
C1_Witness ==
    /\ pc[1] = "subscribing"
    /\ Len(out[1]) >= 2
    /\ TerminalRecords(1) # {}

\* C2: at most one terminal record (Done or Error) is ever published, whatever
\* the upstream goes on to deliver after the first one.
C2_AtMostOneTerminal ==
    \A i \in Subscriptions : Cardinality(TerminalRecords(i)) <= 1

\* an Error record was published, and the upstream then delivered a further
\* embedded error and a completion
C2_Witness ==
    /\ Len(hardErrors[1]) = 2
    /\ upstreamCompleted[1]
    /\ \E k \in DOMAIN out[1] : out[1][k].state = "Error"

\* C3: once the caller has unsubscribed, nothing more is delivered to it.
C3_SilentAfterUnsubscribe ==
    [][\A i \in Subscriptions : callerUnsubscribed[i] => out'[i] = out[i]]_vars

\* the caller unsubscribed while receiving Loading, and the upstream then
\* delivered a batch, an error and a completion during subscribe
C3_Witness ==
    /\ callerUnsubscribed[1]
    /\ out[1] = <<LoadingRecord>>
    /\ received[1] # <<>>
    /\ hardErrors[1] # <<>>
    /\ upstreamCompleted[1]

\* C4: after the caller unsubscribed before a terminal record, no upstream
\* batch is processed: no frame is appended and the reducer is not run.
C4_NoProcessingAfterUnsubscribe ==
    [][\A i \in Subscriptions :
          (callerUnsubscribed[i] /\ TerminalRecords(i) = {}) =>
              /\ rawLogsVolume'[i] = rawLogsVolume[i]
              /\ reducerRuns'[i] = reducerRuns[i]]_vars

\* C5: if the upstream delivers only non-error batches and completes, and the
\* caller never unsubscribes, the output ends as Loading, one Done record with
\* the reduction of all received frames in arrival order, and the completion:
\* every run ends with that output, unless the upstream is still to complete,
\* a hard error was delivered or the caller unsubscribed.
C5_EventuallyDone ==
    <>[](\/ UpstreamOpen(1)
         \/ callerUnsubscribed[1]
         \/ hardErrors[1] # <<>>
         \/ /\ Len(out[1]) = 3
            /\ out[1][1] = LoadingRecord
            /\ out[1][2].kind = "next" /\ out[1][2].state = "Done"
            /\ out[1][2].error = NoError
            /\ StripMeta(out[1][2].data) = aggregateRawLogsVolume(received[1])
            /\ out[1][3] = CompleteNotification)

\* the upstream completed after one frame, and Done carries its series
C5_Witness ==
    /\ ~callerUnsubscribed[1]
    /\ hardErrors[1] = <<>>
    /\ upstreamCompleted[1]
    /\ Len(received[1]) = 1
    /\ Len(out[1]) = 3
    /\ out[1][2].data # <<>>

\* C6, as stated: a hard error reaches the caller in exactly one notification.
C6_ExactlyOneNotification ==
    \A i \in Subscriptions :
        (Len(hardErrors[i]) = 1 /\ ~callerUnsubscribed[i]) =>
            Cardinality({k \in DOMAIN out[i] : out[i][k].error = hardErrors[i][1]}) = 1

\* C6, amended: the first hard error delivered while the caller is subscribed
\* ends the output with one Error record and then one error notification, both
\* carrying that error; what the caller is told carries no other error.
C6_ErrorRecordThenNotification ==
    \A i \in Subscriptions :
        /\ (hardErrors[i] # <<>> /\ ~callerUnsubscribed[i]) =>
              out[i] = <<LoadingRecord, ErrorRecord(hardErrors[i][1]),
                         ErrorNotification(hardErrors[i][1])>>
        /\ \A k \in DOMAIN out[i] :
              out[i][k].error # NoError =>
                  /\ hardErrors[i] # <<>>
                  /\ out[i][k].error = hardErrors[i][1]
        /\ Cardinality({k \in DOMAIN out[i] : out[i][k].kind = "error"}) <= 1

\* two different hard errors were delivered to a caller that stays subscribed
C6_Witness ==
    /\ ~callerUnsubscribed[1]
    /\ Len(hardErrors[1]) = 2
    /\ hardErrors[1][1] # hardErrors[1][2]

C8_IsolatedAccumulators ==
    \A i \in Subscriptions :
        /\ rawLogsVolume[i] = received[i]
        /\ \A k \in DOMAIN out[i] :
              out[i][k].state = "Done" =>
                  StripMeta(out[i][k].data) = aggregateRawLogsVolume(received[i])

\* both invocations published Done, with different data
C8_Witness ==
    /\ Len(out[1]) = 3 /\ out[1][2].state = "Done"
    /\ Len(out[2]) = 3 /\ out[2][2].state = "Done"
    /\ out[1][2].data # <<>>
    /\ out[2][2].data # <<>>
    /\ StripMeta(out[1][2].data) # StripMeta(out[2][2].data)

\* C16: every invocation queries the upstream exactly once and opens one
\* subscription; the teardown releases the handle at most once; and whenever
\* the output has terminated or was cancelled, by upstream completion,
\* upstream error, embedded-error batch or caller cancellation, the upstream
\* subscription is closed.
C16_QueriedOnceReleasedAtEnd ==
    \A i \in Subscriptions :
        /\ queries[i] <= 1
        /\ pc[i] \in {"subscribing", "subscribed"} => queries[i] = 1
        /\ releases[i] <= 1
        /\ (observerClosed[i] /\ queries[i] = 1) => upstreamClosed[i]

\* C17: a non-error batch changes only the accumulator: its frames are
\* appended, in order, after the frames retained so far, nothing is published,
\* the reducer is not run and neither subscriber changes; and no record is
\* ever published between Loading and the terminal record.
C17_BatchOnlyAccumulates ==
    /\ [](\A i \in Subscriptions : \A k \in DOMAIN out[i] :
              (k >= 2 /\ out[i][k].kind = "next") =>
                  (k = 2 /\ out[i][k].state \in {"Done", "Error"}))
    /\ [][\A i \in Subscriptions :
              received'[i] # received[i] =>
                  /\ rawLogsVolume'[i] =
                        rawLogsVolume[i] \o
                            SubSeq(received'[i], Len(received[i]) + 1, Len(received'[i]))
                  /\ out'[i] = out[i]
                  /\ reducerRuns'[i] = reducerRuns[i]
                  /\ observerClosed'[i] = observerClosed[i]
                  /\ upstreamClosed'[i] = upstreamClosed[i]
                  /\ callerUnsubscribed'[i] = callerUnsubscribed[i]
                  /\ pc'[i] = pc[i]]_vars

\* two frames are retained after subscribe returned, and only Loading was
\* published
C17_Witness ==
    /\ pc[1] = "subscribed"
    /\ Len(rawLogsVolume[1]) = 2
    /\ rawLogsVolume[1][1] # rawLogsVolume[1][2]
    /\ out[1] = <<LoadingRecord>>
    /\ ~observerClosed[1]

\* C20: the data of every Done record are the series of the reducer, none of
\* their fields changed, the first one carrying the targets and the absolute
\* range in milliseconds as metadata and no other carrying any; when the
\* reducer yields no series, Done is published all the same, with empty data.
C20_MetaOnFirstSeriesOnly ==
    \A i \in Subscriptions :
        /\ (upstreamCompleted[i] /\ hardErrors[i] = <<>> /\ ~callerUnsubscribed[i]) =>
              (Len(out[i]) >= 2 /\ out[i][2].state = "Done")
        /\ \A k \in DOMAIN out[i] :
              out[i][k].state = "Done" =>
                  LET data == out[i][k].data
                      series == aggregateRawLogsVolume(received[i])
                  IN  /\ Len(data) = Len(series)
                      /\ \A m \in DOMAIN data :
                            /\ [data[m] EXCEPT !.meta = <<>>] = series[m]
                            /\ data[m].meta =
                                  IF m = 1
                                  THEN <<[targets |-> options(i).targets,
                                          absoluteRange |-> [from |-> 0, to |-> 120000]]>>
                                  ELSE <<>>

\* Done was published with two series
C20_Witness ==
    /\ Len(out[1]) >= 2
    /\ out[1][2].state = "Done"
    /\ Len(out[1][2].data) = 2
    /\ out[1][2].data[1].meta # <<>>

(***************************************************************************)
(* Properties of the reducer, under SpecAgg.                               *)
(***************************************************************************)
\* C9: for a single raw frame with a time column, of any finite numeric or null
\* values, a canonical level is emitted if and only if at least one row of its
\* final folded series is positive.
C9_EmittedIffFinalPositive ==
    Reduced =>
        \A level \in CanonicalLevels :
            (level \in EmittedLevels) <=>
                \E i \in DOMAIN TimeColumnOf(rawFrame) :
                    SumOfPresent(rawFrame, Contributing(rawFrame, level), i) > 0

\* C10: every output series has the row count of the time column, its Time at
\* row i is the time column's value at row i, and its Value at row i is the sum of
\* the contributing columns at row i, an absent value counted as 0 whenever at
\* least one contributing value of that row is present.
C10_RowsTimesAndSums ==
    Reduced =>
        \A s \in DOMAIN aggregated[1] :
            LET series == aggregated[1][s]
                time == TimeColumnOf(rawFrame)
                ks == Contributing(rawFrame, series.level)
            IN  /\ Len(series.Time) = Len(time)
                /\ Len(series.Value) = Len(time)
                /\ \A i \in DOMAIN time :
                      /\ series.Time[i] = time[i]
                      /\ AnyPresent(rawFrame, ks, i) =>
                            series.Value[i] = Num(SumOfPresent(rawFrame, ks, i))

\* two columns of one level were folded, with a row where one value is absent
\* and the other present, over a time column of two rows
C10_Witness ==
    /\ Reduced
    /\ Len(TimeColumnOf(rawFrame)) = 2
    /\ \E s \in DOMAIN aggregated[1] :
          LET ks == Contributing(rawFrame, aggregated[1][s].level)
          IN  /\ Cardinality(ks) = 2
              /\ \E i \in 1..2 :
                    /\ AnyPresent(rawFrame, ks, i)
                    /\ \E k \in ks : rawFrame.fields[k].values[i] = Null
              /\ \E i \in 1..2 : \A k \in ks : rawFrame.fields[k].values[i] = Num(1)

\* C18: a row where every contributing raw column is null stays null in the
\* output series and is not turned into 0, the first or only column folded
\* into a freshly created series included.
C18_AllNullStaysNull ==
    Reduced =>
        \A s \in DOMAIN aggregated[1] :
            LET ks == Contributing(rawFrame, aggregated[1][s].level)
            IN  \A i \in DOMAIN TimeColumnOf(rawFrame) :
                    (\A k \in ks : rawFrame.fields[k].values[i] = Null) =>
                        aggregated[1][s].Value[i] = Null

\* the frame with the columns at positions j and k exchanged
SwapFields(frame, j, k) ==
    [fields |-> [frame.fields EXCEPT ![j] = frame.fields[k], ![k] = frame.fields[j]]]

\* the level and the folded values of every entry of a Map, in Map order
FoldedValues(map) == [m \in DOMAIN map |-> [level |-> map[m].level, Value |-> map[m].Value]]

\* C19, under SpecFold: exchanging two value columns that map to one level leaves the folded
\* value of that level unchanged at every row, as it leaves those of the other
\* levels, and with it the values of the level's output series.
C19_FoldCommutes ==
    Reduced =>
        LET folded == FoldedValues(FoldedLevels(rawFrame))
        IN  \A j, k \in ValueColumns(rawFrame) :
                (/\ j < k
                 /\ getLogLevelFromKey(rawFrame.fields[j].name) =
                        getLogLevelFromKey(rawFrame.fields[k].name)) =>
                    LET swapped == FoldedValues(FoldedLevels(SwapFields(rawFrame, j, k)))
                    IN  /\ folded = swapped
                        /\ \A s \in DOMAIN aggregated[1] :
                              \E m \in DOMAIN swapped :
                                  /\ swapped[m].level = aggregated[1][s].level
                                  /\ swapped[m].Value = aggregated[1][s].Value

\* two columns of one level that differ in a row, one of them null there,
\* were folded into an output series
C19_Witness ==
    /\ Reduced
    /\ \E s \in DOMAIN aggregated[1] :
          \E j, k \in Contributing(rawFrame, aggregated[1][s].level) :
              /\ j < k
              /\ \E i \in DOMAIN TimeColumnOf(rawFrame) :
                    /\ rawFrame.fields[j].values[i] = Null
                    /\ rawFrame.fields[k].values[i] = Num(1)

\* the position of the leftmost raw column that classifies to a level
FirstSeen(frame, level) ==
    CHOOSE k \in Contributing(frame, level) :
        \A j \in Contributing(frame, level) : k <= j

\* the levels of the raw value columns
SeenLevels(frame) ==
    {getLogLevelFromKey(frame.fields[k].name) : k \in ValueColumns(frame)}

\* C21, under SpecOrder: the output series are in the order in which their
\* levels are first seen scanning the raw value columns left to right, no
\* level has two series, and the series of the levels that remain after an
\* all-zero level is dropped keep that order.
C21_FirstSeenOrder ==
    Reduced =>
        /\ \A s \in DOMAIN aggregated[1] :
              aggregated[1][s].level \in SeenLevels(rawFrame)
        /\ \A s, t \in DOMAIN aggregated[1] :
              s < t =>
                  /\ aggregated[1][s].level # aggregated[1][t].level
                  /\ FirstSeen(rawFrame, aggregated[1][s].level) <
                        FirstSeen(rawFrame, aggregated[1][t].level)

\* three levels were seen, the second of them was dropped as all-zero, and
\* the first and the third were emitted
C21_Witness ==
    /\ Reduced
    /\ Cardinality(SeenLevels(rawFrame)) = 3
    /\ Len(aggregated[1]) = 2
    /\ \E dropped \in SeenLevels(rawFrame) \ EmittedLevels :
          /\ FirstSeen(rawFrame, aggregated[1][1].level) < FirstSeen(rawFrame, dropped)
          /\ FirstSeen(rawFrame, dropped) < FirstSeen(rawFrame, aggregated[1][2].level)

\* the frame has exactly one value column, and it is named logs
LoneLogsColumn(frame) ==
    /\ Cardinality(ValueColumns(frame)) = 1
    /\ \A k \in ValueColumns(frame) : frame.fields[k].name = "logs"

\* C11: when the raw frame has exactly one value column and it is named logs,
\* the output series is displayed as logs; in every other case each output
\* series is displayed under its canonical level name.
C11_DisplayName ==
    Reduced =>
        \A s \in DOMAIN aggregated[1] :
            aggregated[1][s].name =
                IF LoneLogsColumn(rawFrame) THEN "logs" ELSE aggregated[1][s].level

\* a lone logs column was reduced to one series of the unknown level
C11_Witness ==
    /\ Reduced
    /\ LoneLogsColumn(rawFrame)
    /\ Len(aggregated[1]) = 1
    /\ aggregated[1][1].level = "unknown"

(***************************************************************************)
(* Properties of the interval resolver, under SpecInterval.                *)
(***************************************************************************)
\* getIntervalInfo was called with a hint supplied
Resolved == intervalInfo # <<>> /\ scopedVars.__interval

Hint == scopedVars.__interval_ms.value

\* the label of a bucket width
LabelOf(width) ==
    CASE width = 1 -> "1ms"
      [] width = 1000 -> "1s"
      [] width = 60000 -> "1m"
      [] width = 3600000 -> "1h"
      [] width = 86400000 -> "1d"
      [] OTHER -> "none"

\* the width denoted by a truncation unit of the database
WidthOfUnit(unit) ==
    CASE unit = "SECOND" -> 1000
      [] unit = "MINUTE" -> 60000
      [] unit = "HOUR" -> 3600000
      [] unit = "DAY" -> 86400000
      [] OTHER -> 0

\* the smallest of the widths that is not smaller than the hint; 0 if none
SmallestNotSmaller(widths, hint) ==
    LET fit == {w \in widths : w >= hint}
    IN  IF fit = {} THEN 0 ELSE CHOOSE w \in fit : \A x \in fit : w <= x

\* C12: with a hint supplied, a time span below 5000 ms always resolves to
\* interval 1ms and intervalMs 1, whatever the hint; a time span of 5000 ms or
\* more never resolves to 1ms.
C12_MillisBelowFiveSeconds ==
    Resolved =>
        /\ timespanMs < 5000 => intervalInfo[1] = [interval |-> "1ms", intervalMs |-> 1]
        /\ timespanMs >= 5000 =>
              /\ intervalInfo[1].interval # "1ms"
              /\ intervalInfo[1].intervalMs # 1

\* a hint of one hour was resolved for a time span just below 5 seconds
C12_Witness ==
    /\ Resolved
    /\ timespanMs = 4999
    /\ Hint = 3600000
    /\ intervalInfo[1].intervalMs = 1

\* C13, as stated: for every hint and a time span of 5000 ms or more, the
\* returned width is the smallest of 1s, 1m, 1h, 1d that is not smaller than
\* the hint, so it is never smaller than the hint, and the label matches it.
C13_SnapsUpward ==
    (Resolved /\ timespanMs >= 5000) =>
        /\ intervalInfo[1].intervalMs = SmallestNotSmaller({1000, 60000, 3600000, 86400000}, Hint)
        /\ intervalInfo[1].intervalMs >= Hint
        /\ intervalInfo[1].interval = LabelOf(intervalInfo[1].intervalMs)

\* C13, amended: for a hint of at most one day the returned width is the
\* smallest of 1s, 1m, 1h, 1d that is not smaller than the hint; for a hint
\* above one day it is one day, smaller than the hint; the label matches it.
C13_SnapsUpwardToOneDay ==
    (Resolved /\ timespanMs >= 5000) =>
        /\ Hint <= 86400000 =>
              /\ intervalInfo[1].intervalMs =
                     SmallestNotSmaller({1000, 60000, 3600000, 86400000}, Hint)
              /\ intervalInfo[1].intervalMs >= Hint
        /\ Hint > 86400000 => intervalInfo[1].intervalMs = 86400000
        /\ intervalInfo[1].interval = LabelOf(intervalInfo[1].intervalMs)

\* a hint of two days was resolved to one day
C13_Witness ==
    /\ Resolved
    /\ timespanMs >= 5000
    /\ Hint = 172800000
    /\ intervalInfo[1] = [interval |-> "1d", intervalMs |-> 86400000]

\* C14: for every hint and every time span, the truncation unit of the clause
\* denotes the width returned by getIntervalInfo.
C14_SameWidths ==
    (Resolved /\ roundingClause # <<>>) =>
        WidthOfUnit(roundingClause[1][4]) = intervalInfo[1].intervalMs

(***************************************************************************)
(* Properties of the ORDER BY editor, under SpecEditor.                    *)
(***************************************************************************)
\* the list a click on the add button must hand over
IsListWithAdded(list) ==
    /\ Len(list) = Len(orderBy) + 1
    /\ \A j \in DOMAIN orderBy : list[j] = orderBy[j]
    /\ list[Len(list)].name = allColumns[1]
    /\ list[Len(list)].dir = "ASC"

\* the list a click on the remove button of item index must hand over
IsListWithout(list, index) ==
    /\ Len(list) = Len(orderBy) - 1
    /\ \A j \in DOMAIN list : list[j] = IF j <= index THEN orderBy[j] ELSE orderBy[j + 1]

\* C15: every click calls onOrderByChange exactly once; a click on add hands
\* over the orderBy prop followed by the first column ascending, a click on
\* the remove button of item i hands over the orderBy prop without item i, the
\* other items in order; every click is computed from the prop as passed.
C15_ControlledEditor ==
    /\ Len(onOrderByChangeCalls) = Len(clicks)
    /\ \A k \in DOMAIN clicks :
          IF clicks[k].button = "add"
          THEN IsListWithAdded(onOrderByChangeCalls[k])
          ELSE IsListWithout(onOrderByChangeCalls[k], clicks[k].index)

\* from [foo, bar] with all test columns: remove[1], remove[0], add were
\* clicked and the calls were [foo], [bar], [foo, bar, foo]
C15_Witness ==
    LET foo == [name |-> "foo", dir |-> "ASC"]
        bar == [name |-> "bar", dir |-> "ASC"]
    IN  /\ allColumns = testColumns
        /\ orderBy = <<foo, bar>>
        /\ clicks = <<[button |-> "remove", index |-> 1],
                      [button |-> "remove", index |-> 0],
                      [button |-> "add", index |-> 0]>>
        /\ onOrderByChangeCalls = << <<foo>>, <<bar>>, <<foo, bar, foo>> >>

====
